---- MODULE Spec2Model ----
(***************************************************************************)
(* exa, src/main.rs: the concurrent path resolver Exa::load (one submitting *)
(* thread, one scoped consumer thread, one producer thread per path, a     *)
(* bounded channel of capacity tokens and an unbounded results channel),   *)
(* followed by Exa::print_files and the explicit-stack directory driver    *)
(* Exa::print_dirs, as called from main.                                   *)
(*                                                                         *)
(* A path is a sequence of components; a component is a natural number,    *)
(* CurDir standing for "." and 1, 2, 3, ... for names in sort order.       *)
(***************************************************************************)
EXTENDS FiniteSets, Integers, Sequences, TLC

\* Bounds of the model.
MaxTargets == 3      \* longest list of paths on the command line
MaxCap     == 2      \* largest bound of the capacity channel (8 * num_cpus in the source)
MaxDepth   == 2      \* largest configured --level

\* Component::CurDir
CurDir == 0

(***************************************************************************)
(* The file system the probes and the directory reads look at.             *)
(***************************************************************************)
FsDirs  == { <<1>>, <<1, 1>>, <<1, 1, 1>>, <<1, 2>>, <<2>>, <<2, 1>> }
FsFiles == { <<3>>, <<1, 3>> }
FsNames == 1..3

\* The paths a user may name: a directory with subdirectories, a directory
\* written with a leading ".", a regular file and a missing path.
TargetPool == { <<1>>, <<CurDir, 2>>, <<3>>, <<4>> }

\* Path::components() without the CurDir components
Components(path) == SelectSeq(path, LAMBDA c : c # CurDir)

\* fs::metadata(&path): "dir", "file" or "err"
Metadata(path) ==
    IF Components(path) \in FsDirs THEN "dir"
    ELSE IF Components(path) \in FsFiles THEN "file"
    ELSE "err"

\* File::with_stat(stat, &path, None, flag)
File(path, flag) == [path |-> path, is_dir |-> Metadata(path) = "dir", flag |-> flag]

\* The names found in a directory.
ChildNames(path) ==
    { n \in FsNames : Components(path) \o <<n>> \in FsDirs \cup FsFiles }

RECURSIVE Descending(_)
Descending(S) ==
    IF S = {} THEN <<>>
    ELSE LET m == CHOOSE x \in S : \A y \in S : y <= x
         IN  <<m>> \o Descending(S \ {m})

\* dir.files(false): the children in the order the directory yields them
\* (here: descending by name, so that the transform has something to do)
DirFiles(path) ==
    LET names == Descending(ChildNames(path))
    IN  [i \in 1..Len(names) |-> File(path \o <<names[i]>>, FALSE)]

Name(file) == file.path[Len(file.path)]

RECURSIVE SortByName(_)
SortByName(S) ==
    IF S = {} THEN <<>>
    ELSE LET f == CHOOSE x \in S : \A y \in S : Name(x) <= Name(y)
         IN  <<f>> \o SortByName(S \ {f})

\* self.options.transform_files(&mut files): sort by name
TransformFiles(files) == SortByName({ files[i] : i \in DOMAIN files })

\* DirAction::is_tree / is_as_file / recurse_options, RecurseOptions::is_too_deep
IsTreeAction(options)   == options.dir_action = "Recurse" /\ options.tree
IsAsFile(options)       == options.dir_action = "AsFile"
HasRecurseOptions(options) == options.dir_action = "Recurse"
IsTooDeep(options, depth)  == \E d \in options.max_depth : depth > d

\* line 63: let is_tree = dir_action.is_tree() || dir_action.is_as_file()
is_tree(options) == IsTreeAction(options) \/ IsAsFile(options)

\* line 165: components().filter(|&c| c != Component::CurDir).count() + 1
Depth(path) == Len(Components(path)) + 1

Reverse(s) == [i \in 1..Len(s) |-> s[Len(s) + 1 - i]]
Front(s)   == SubSeq(s, 1, Len(s) - 1)
Last(s)    == s[Len(s)]

OptionsSet ==
    { [dir_action |-> "AsFile", tree |-> FALSE, max_depth |-> {}],
      [dir_action |-> "List",   tree |-> FALSE, max_depth |-> {}] }
    \cup
    { [dir_action |-> "Recurse", tree |-> t, max_depth |-> md] :
        t \in BOOLEAN, md \in {{}} \cup { {d} : d \in 1..MaxDepth } }

PathLists == UNION { [1..n -> TargetPool] : n \in 0..MaxTargets }

\* One line (or block) written to standard output.
Line(kind, path, entries) == [kind |-> kind, path |-> path, entries |-> entries]

VARIABLES
    pc,            \* position of the main thread
    options,       \* self.options
    paths,         \* the paths given to load()
    cap,           \* bound of the capacity channel
    count,         \* self.count
    dirs,          \* self.dirs
    files,         \* self.files
    tokens,        \* number of () buffered in the capacity channel
    results,       \* the results channel
    senders,       \* number of live Senders of the results channel
    i,             \* number of producer threads spawned so far
    prod,          \* state of each producer thread
    cpc,           \* position of the consumer thread
    iter,          \* iterations the consumer has completed
    first,         \* print_dirs' local
    out,           \* standard output
    exit_status,   \* env::set_exit_status
    blocked_at     \* history: {} while the send of line 103 has not blocked, {n}
                   \* when it blocked with n outcomes already sent

vars == <<pc, options, paths, cap, count, dirs, files, tokens, results, senders,
          i, prod, cpc, iter, first, out, exit_status, blocked_at>>

exa    == <<count, dirs, files>>
chans  == <<tokens, results, senders>>
inputs == <<options, paths, cap>>

\* Exa::new, before main parses the arguments
Init ==
    /\ pc = "getopts"
    /\ options = [dir_action |-> "List", tree |-> FALSE, max_depth |-> {}]
    /\ paths = <<>>
    /\ cap = 1
    /\ count = 0
    /\ dirs = <<>>
    /\ files = <<>>
    /\ tokens = 0
    /\ results = <<>>
    /\ senders = 0
    /\ i = 0
    /\ prod = <<>>
    /\ cpc = "none"
    /\ iter = 0
    /\ first = FALSE
    /\ out = <<>>
    /\ exit_status = 0
    /\ blocked_at = {}

\* main: Options::getopts succeeds with options out of O
GetoptsOkFrom(O) ==
    /\ pc = "getopts"
    /\ \E o \in O, p \in PathLists :
          /\ options' = o
          /\ paths' = p
    /\ pc' = "load"
    /\ UNCHANGED <<cap, exa, chans, i, prod, cpc, iter, first, out, exit_status, blocked_at>>

GetoptsOk == GetoptsOkFrom(OptionsSet)

\* main: Options::getopts fails; the message is printed and the exit status set
GetoptsErr ==
    /\ pc = "getopts"
    /\ \E code \in {0, 3} :
          exit_status' = code
    /\ out' = Append(out, Line("misfire", <<>>, <<>>))
    /\ pc' = "exit"
    /\ UNCHANGED <<inputs, exa, chans, i, prod, cpc, iter, first, blocked_at>>

\* the producers that have sent their outcome
NumSent == Cardinality({ t \in DOMAIN prod : prod[t] = "sent" })

\* The head of the `for file in files.iter()` loop: either clone results_tx
\* and go on to send a token, or leave the loop and join the consumer.
LoopHead(n) == IF n < Len(paths) THEN "send" ELSE "join"

\* A load() that moves results_tx into the loop instead of keeping the
\* original alive until the end of the scope.
LoadStart_NoOriginal ==
    /\ pc = "load"
    /\ \E c \in 1..MaxCap : cap' = c
    /\ tokens' = 0
    /\ results' = <<>>
    /\ cpc' = IF Len(paths) = 0 THEN "done" ELSE "recv_token"
    /\ iter' = 0
    /\ i' = 0
    /\ prod' = [t \in 1..Len(paths) |-> "idle"]
    /\ senders' = IF Len(paths) > 0 THEN 1 ELSE 0
    /\ pc' = LoopHead(0)
    /\ blocked_at' = {}
    /\ UNCHANGED <<options, paths, exa, first, out, exit_status>>

\* load(): the channels are created and the consumer thread is spawned
LoadStart ==
    /\ pc = "load"
    /\ \E c \in 1..MaxCap : cap' = c
    /\ tokens' = 0
    /\ results' = <<>>
    /\ cpc' = IF Len(paths) = 0 THEN "done" ELSE "recv_token"
    /\ iter' = 0
    /\ i' = 0
    /\ prod' = [t \in 1..Len(paths) |-> "idle"]
    /\ senders' = IF Len(paths) > 0 THEN 2 ELSE 1
    /\ pc' = LoopHead(0)
    /\ blocked_at' = {}
    /\ UNCHANGED <<options, paths, exa, first, out, exit_status>>

\* A send on an unbounded capacity channel: it never blocks.
SendToken_NoBlock ==
    /\ pc = "send"
    /\ tokens' = tokens + 1
    /\ pc' = "spawn"
    /\ blocked_at' = {}
    /\ UNCHANGED <<inputs, exa, results, senders, i, prod, cpc, iter, first, out,
                   exit_status>>

\* line 103: thread_capacity_tx.send(()) blocks while the buffer is full
SendToken ==
    /\ pc = "send"
    /\ tokens < cap
    /\ tokens' = tokens + 1
    /\ pc' = "spawn"
    /\ blocked_at' = {}
    /\ UNCHANGED <<inputs, exa, results, senders, i, prod, cpc, iter, first, out,
                   exit_status>>

\* line 106: thread::spawn of the producer, then the next iteration's clone
SpawnProducer ==
    /\ pc = "spawn"
    /\ i' = i + 1
    /\ prod' = [prod EXCEPT ![i + 1] = "running"]
    /\ senders' = IF i + 1 < Len(paths) THEN senders + 1 ELSE senders
    /\ pc' = LoopHead(i + 1)
    /\ blocked_at' = IF i + 1 < Len(paths) /\ tokens = cap THEN {NumSent} ELSE {}
    /\ UNCHANGED <<inputs, exa, tokens, results, cpc, iter, first, out, exit_status>>

\* A classification that forgets is_tree.
Classify_NoTree(path, tree) ==
    IF Metadata(path) = "err" THEN [tag |-> "Error", file |-> File(path, FALSE)]
    ELSE IF Metadata(path) # "dir" THEN [tag |-> "File", file |-> File(path, FALSE)]
    ELSE [tag |-> "Path", file |-> File(path, FALSE)]

\* lines 108-124: what the producer of `path` sends
Classify(path, tree) ==
    IF Metadata(path) = "err" THEN [tag |-> "Error", file |-> File(path, FALSE)]
    ELSE IF Metadata(path) # "dir" THEN [tag |-> "File", file |-> File(path, FALSE)]
    ELSE IF tree THEN [tag |-> "File", file |-> File(path, TRUE)]
    ELSE [tag |-> "Path", file |-> File(path, FALSE)]

\* A producer that sends nothing when the probe fails.
Producer_SilentFailure(t) ==
    /\ t \in DOMAIN prod
    /\ prod[t] = "running"
    /\ LET r == Classify(paths[t], is_tree(options))
       IN  /\ results' = IF r.tag = "Error" THEN results ELSE Append(results, r)
           /\ out' = IF r.tag = "Error"
                     THEN Append(out, Line("probe_error", paths[t], <<>>))
                     ELSE out
    /\ prod' = [prod EXCEPT ![t] = "sent"]
    /\ senders' = senders - 1
    /\ UNCHANGED <<pc, inputs, exa, tokens, i, cpc, iter, first, exit_status, blocked_at>>

\* lines 106-125: the producer thread: it probes its path, prints the error if
\* any, sends the outcome on the results channel and ends, which drops its
\* clone of results_tx
Producer(t) ==
    /\ t \in DOMAIN prod
    /\ prod[t] = "running"
    /\ LET r == Classify(paths[t], is_tree(options))
       IN  /\ results' = Append(results, r)
           /\ out' = IF r.tag = "Error"
                     THEN Append(out, Line("probe_error", paths[t], <<>>))
                     ELSE out
    /\ prod' = [prod EXCEPT ![t] = "sent"]
    /\ senders' = senders - 1
    /\ UNCHANGED <<pc, inputs, exa, tokens, i, cpc, iter, first, exit_status, blocked_at>>

\* line 83: thread_capacity_rs.recv()
ConsumerRecvToken ==
    /\ cpc = "recv_token"
    /\ tokens > 0
    /\ tokens' = tokens - 1
    /\ cpc' = "recv_result"
    /\ UNCHANGED <<pc, inputs, exa, results, senders, i, prod, iter, first, out,
                   exit_status, blocked_at>>

\* A consumer that leaves its loop on the first Error outcome.
ConsumerRecvResult_AbortOnError ==
    /\ cpc = "recv_result"
    /\ results # <<>>
    /\ LET r == Head(results)
       IN  /\ files' = IF r.tag = "File" THEN Append(files, r.file) ELSE files
           /\ dirs'  = IF r.tag = "Path" THEN Append(dirs, r.file.path) ELSE dirs
           /\ cpc' = IF iter + 1 < Len(paths) /\ r.tag # "Error"
                     THEN "recv_token" ELSE "done"
    /\ results' = Tail(results)
    /\ count' = count + 1
    /\ iter' = iter + 1
    /\ UNCHANGED <<pc, inputs, tokens, senders, i, prod, first, out, exit_status, blocked_at>>

\* A consumer that does not count Error outcomes.
ConsumerRecvResult_NoCountOnError ==
    /\ cpc = "recv_result"
    /\ results # <<>>
    /\ LET r == Head(results)
       IN  /\ files' = IF r.tag = "File" THEN Append(files, r.file) ELSE files
           /\ dirs'  = IF r.tag = "Path" THEN Append(dirs, r.file.path) ELSE dirs
           /\ count' = IF r.tag = "Error" THEN count ELSE count + 1
    /\ results' = Tail(results)
    /\ iter' = iter + 1
    /\ cpc' = IF iter + 1 < Len(paths) THEN "recv_token" ELSE "done"
    /\ UNCHANGED <<pc, inputs, tokens, senders, i, prod, first, out, exit_status, blocked_at>>

\* A consumer that gives the token back when the outcome is an Error, so
\* that the slot of a failed probe is never released.
ConsumerRecvResult_KeepTokenOnError ==
    /\ cpc = "recv_result"
    /\ results # <<>>
    /\ LET r == Head(results)
       IN  /\ files' = IF r.tag = "File" THEN Append(files, r.file) ELSE files
           /\ dirs'  = IF r.tag = "Path" THEN Append(dirs, r.file.path) ELSE dirs
           /\ tokens' = IF r.tag = "Error" THEN tokens + 1 ELSE tokens
    /\ results' = Tail(results)
    /\ count' = count + 1
    /\ iter' = iter + 1
    /\ cpc' = IF iter + 1 < Len(paths) THEN "recv_token" ELSE "done"
    /\ UNCHANGED <<pc, inputs, senders, i, prod, first, out, exit_status, blocked_at>>

\* lines 86-94: results_rx.recv(), the push into a bucket, self.count += 1
ConsumerRecvResult ==
    /\ cpc = "recv_result"
    /\ IF results # <<>>
       THEN /\ LET r == Head(results)
               IN  /\ files' = IF r.tag = "File" THEN Append(files, r.file) ELSE files
                   /\ dirs'  = IF r.tag = "Path" THEN Append(dirs, r.file.path) ELSE dirs
            /\ results' = Tail(results)
            /\ count' = count + 1
            /\ iter' = iter + 1
            /\ cpc' = IF iter + 1 < Len(paths) THEN "recv_token" ELSE "done"
       ELSE \* Err(_) => unreachable!(): every Sender is gone and nothing is queued
            /\ senders = 0
            /\ cpc' = "panicked"
            /\ UNCHANGED <<exa, results, iter>>
    /\ UNCHANGED <<pc, inputs, tokens, senders, i, prod, first, out, exit_status, blocked_at>>

\* A load() that returns without joining the consumer.
LoadJoin_NoWait ==
    /\ pc = "join"
    /\ senders' = senders - 1
    /\ pc' = "print_files"
    /\ UNCHANGED <<inputs, exa, tokens, results, i, prod, cpc, iter, first, out,
                   exit_status, blocked_at>>

\* line 127: the JoinGuard _consumer is dropped first (join), then results_tx
\* and thread_capacity_tx; load() returns
LoadJoin ==
    /\ pc = "join"
    /\ cpc \in {"done", "panicked"}
    /\ senders' = senders - 1
    /\ pc' = "print_files"
    /\ UNCHANGED <<inputs, exa, tokens, results, i, prod, cpc, iter, first, out,
                   exit_status, blocked_at>>

\* print_files
PrintFiles ==
    /\ pc = "print_files"
    /\ out' = IF files # <<>> THEN Append(out, Line("files", <<>>, files)) ELSE out
    /\ pc' = "print_dirs"
    /\ UNCHANGED <<inputs, exa, chans, i, prod, cpc, iter, first, exit_status, blocked_at>>

\* A print_dirs whose first is true whatever files holds.
PrintDirsStart_AlwaysFirst ==
    /\ pc = "print_dirs"
    /\ first' = TRUE
    /\ pc' = "dirs_loop"
    /\ UNCHANGED <<inputs, exa, chans, i, prod, cpc, iter, out, exit_status, blocked_at>>

\* line 136: let mut first = self.files.is_empty()
PrintDirsStart ==
    /\ pc = "print_dirs"
    /\ first' = (files = <<>>)
    /\ pc' = "dirs_loop"
    /\ UNCHANGED <<inputs, exa, chans, i, prod, cpc, iter, out, exit_status, blocked_at>>

\* lines 141-143: the stack is empty; print_dirs and main return
PrintDirsBreak ==
    /\ pc = "dirs_loop"
    /\ dirs = <<>>
    /\ pc' = "exit"
    /\ UNCHANGED <<inputs, exa, chans, i, prod, cpc, iter, first, out, exit_status, blocked_at>>

\* lines 148-153: the gap between listings
Gap(o, isFirst) == IF isFirst THEN o ELSE Append(o, Line("gap", <<>>, <<>>))

\* Pushes that ignore the recursion options.
Pushes_Always(dir_path, listing) ==
    LET ds == SelectSeq(listing, LAMBDA f : f.is_dir)
    IN  Reverse([n \in 1..Len(ds) |-> ds[n].path])

\* Pushes that ignore the depth limit.
Pushes_NoDepthCheck(dir_path, listing) ==
    IF HasRecurseOptions(options) /\ ~options.tree
    THEN LET ds == SelectSeq(listing, LAMBDA f : f.is_dir)
         IN  Reverse([n \in 1..Len(ds) |-> ds[n].path])
    ELSE <<>>

\* Pushes in display order instead of reverse.
Pushes_Forward(dir_path, listing) ==
    IF /\ HasRecurseOptions(options)
       /\ ~options.tree
       /\ ~IsTooDeep(options, Depth(dir_path))
    THEN LET ds == SelectSeq(listing, LAMBDA f : f.is_dir)
         IN  [n \in 1..Len(ds) |-> ds[n].path]
    ELSE <<>>

\* lines 164-171: the directories to push, in push order
Pushes(dir_path, listing) ==
    IF /\ HasRecurseOptions(options)
       /\ ~options.tree
       /\ ~IsTooDeep(options, Depth(dir_path))
    THEN LET ds == SelectSeq(listing, LAMBDA f : f.is_dir)
         IN  Reverse([n \in 1..Len(ds) |-> ds[n].path])
    ELSE <<>>

\* An expansion that takes the oldest entry of dirs instead of the newest.
PrintDirsExpand_PopBottom ==
    /\ pc = "dirs_loop"
    /\ dirs # <<>>
    /\ LET dir_path == Head(dirs)
           listing  == TransformFiles(DirFiles(dir_path))
           header   == IF count > 1
                       THEN <<Line("header", dir_path, <<>>)>>
                       ELSE <<>>
       IN  /\ dirs' = Tail(dirs) \o Pushes(dir_path, listing)
           /\ out' = Gap(out, first) \o header \o <<Line("listing", dir_path, listing)>>
    /\ first' = FALSE
    /\ count' = count + 1
    /\ UNCHANGED <<pc, inputs, files, chans, i, prod, cpc, iter, exit_status, blocked_at>>

\* An expansion that puts the subdirectories under the pending entries
\* instead of on top of them.
PrintDirsExpand_PushBottom ==
    /\ pc = "dirs_loop"
    /\ dirs # <<>>
    /\ LET dir_path == Last(dirs)
           listing  == TransformFiles(DirFiles(dir_path))
           header   == IF count > 1
                       THEN <<Line("header", dir_path, <<>>)>>
                       ELSE <<>>
       IN  /\ dirs' = Pushes(dir_path, listing) \o Front(dirs)
           /\ out' = Gap(out, first) \o header \o <<Line("listing", dir_path, listing)>>
    /\ first' = FALSE
    /\ count' = count + 1
    /\ UNCHANGED <<pc, inputs, files, chans, i, prod, cpc, iter, exit_status, blocked_at>>

\* An expansion that pushes every subdirectory twice.
PrintDirsExpand_PushTwice ==
    /\ pc = "dirs_loop"
    /\ dirs # <<>>
    /\ LET dir_path == Last(dirs)
           listing  == TransformFiles(DirFiles(dir_path))
           header   == IF count > 1
                       THEN <<Line("header", dir_path, <<>>)>>
                       ELSE <<>>
       IN  /\ dirs' = Front(dirs) \o Pushes(dir_path, listing) \o Pushes(dir_path, listing)
           /\ out' = Gap(out, first) \o header \o <<Line("listing", dir_path, listing)>>
    /\ first' = FALSE
    /\ count' = count + 1
    /\ UNCHANGED <<pc, inputs, files, chans, i, prod, cpc, iter, exit_status, blocked_at>>

\* An expansion that prints the header already from the first entry on.
PrintDirsExpand_HeaderAtOne ==
    /\ pc = "dirs_loop"
    /\ dirs # <<>>
    /\ LET dir_path == Last(dirs)
           listing  == TransformFiles(DirFiles(dir_path))
           header   == IF count > 0
                       THEN <<Line("header", dir_path, <<>>)>>
                       ELSE <<>>
       IN  /\ dirs' = Front(dirs) \o Pushes(dir_path, listing)
           /\ out' = Gap(out, first) \o header \o <<Line("listing", dir_path, listing)>>
    /\ first' = FALSE
    /\ count' = count + 1
    /\ UNCHANGED <<pc, inputs, files, chans, i, prod, cpc, iter, exit_status, blocked_at>>

\* lines 141-179: one iteration of the loop, Dir::readdir succeeding
PrintDirsExpand ==
    /\ pc = "dirs_loop"
    /\ dirs # <<>>
    /\ LET dir_path == Last(dirs)
           listing  == TransformFiles(DirFiles(dir_path))
           header   == IF count > 1
                       THEN <<Line("header", dir_path, <<>>)>>
                       ELSE <<>>
       IN  /\ dirs' = Front(dirs) \o Pushes(dir_path, listing)
           /\ out' = Gap(out, first) \o header \o <<Line("listing", dir_path, listing)>>
    /\ first' = FALSE
    /\ count' = count + 1
    /\ UNCHANGED <<pc, inputs, files, chans, i, prod, cpc, iter, exit_status, blocked_at>>

\* A read error that skips the directory and goes on with the loop.
PrintDirsReadError_Continue ==
    /\ pc = "dirs_loop"
    /\ dirs # <<>>
    /\ dirs' = Front(dirs)
    /\ out' = Append(Gap(out, first), Line("read_error", Last(dirs), <<>>))
    /\ first' = FALSE
    /\ UNCHANGED <<pc, inputs, count, files, chans, i, prod, cpc, iter, exit_status, blocked_at>>

\* lines 141-155, 180-183: one iteration of the loop, Dir::readdir failing
PrintDirsReadError ==
    /\ pc = "dirs_loop"
    /\ dirs # <<>>
    /\ dirs' = Front(dirs)
    /\ out' = Append(Gap(out, first), Line("read_error", Last(dirs), <<>>))
    /\ first' = FALSE
    /\ pc' = "exit"
    /\ UNCHANGED <<inputs, count, files, chans, i, prod, cpc, iter, exit_status, blocked_at>>

Next ==
    \/ GetoptsOk
    \/ GetoptsErr
    \/ LoadStart
    \/ SendToken
    \/ SpawnProducer
    \/ \E t \in 1..MaxTargets : Producer(t)
    \/ ConsumerRecvToken
    \/ ConsumerRecvResult
    \/ LoadJoin
    \/ PrintFiles
    \/ PrintDirsStart
    \/ PrintDirsBreak
    \/ PrintDirsExpand
    \/ PrintDirsReadError

Spec == Init /\ [][Next]_vars

\* A step of one of the threads of load().
LoadStep ==
    \/ LoadStart
    \/ SendToken
    \/ SpawnProducer
    \/ \E t \in 1..MaxTargets : Producer(t)
    \/ ConsumerRecvToken
    \/ ConsumerRecvResult
    \/ LoadJoin

\* load() reads the options only on line 63 (dir_action); the --level value
\* is first read by print_dirs, so one value of it stands for all.
LoadOptions == { o \in OptionsSet : o.max_depth = {} }

\* main up to the return of load()
LoadNext == GetoptsOkFrom(LoadOptions) \/ GetoptsErr \/ LoadStep

\* load() under fair scheduling: as long as one of its threads can take a step,
\* one of them does. (Weaker than fairness to each thread, which implies it;
\* a step of Producer includes the file system answering the probe.)
FairSpec == Init /\ [][LoadNext]_vars /\ WF_vars(LoadStep)

(***************************************************************************)
(* Helpers of the properties.                                              *)
(***************************************************************************)
Occ(seq, x) == Cardinality({ k \in DOMAIN seq : seq[k] = x })
Range(seq)  == { seq[k] : k \in DOMAIN seq }
SameBag(s, t) == \A x \in Range(s) \cup Range(t) : Occ(s, x) = Occ(t, x)
PathsOf(fs) == [k \in DOMAIN fs |-> fs[k].path]

\* the paths of the error lines the producers printed
ProbeErrors == PathsOf(SelectSeq(out, LAMBDA l : l.kind = "probe_error"))

\* probes in flight: producers spawned whose outcome is not yet sent
InFlight == Cardinality({ t \in DOMAIN prod : prod[t] = "running" })

InLoad == pc \in {"send", "spawn", "join"}
LoadReturned == pc = "print_files"

\* C1: when load() returns, every Target has contributed exactly one outcome:
\* |files| + |dirs| + failures = N, self.count = N, each path occurs in the
\* buckets and the error lines together exactly as often as in the input, no
\* outcome is left in the channel, and no spawned probe is undelivered.
C1_ExactlyOneOutcome ==
    LoadReturned =>
        /\ Len(files) + Len(dirs) + Len(ProbeErrors) = Len(paths)
        /\ count = Len(paths)
        /\ SameBag(PathsOf(files) \o dirs \o ProbeErrors, paths)
        /\ results = <<>>
        /\ DOMAIN prod = 1..Len(paths)
        /\ \A t \in DOMAIN prod : prod[t] = "sent"

C1_Witness ==
    /\ LoadReturned
    /\ Len(paths) = 3
    /\ files # <<>> /\ dirs # <<>> /\ ProbeErrors # <<>>

\* C2: in every reachable state of load() the number of probes in flight is
\* at most the capacity C of the channel of tokens.
C2_CeilingRespected == InLoad => InFlight <= cap

\* C3: under fair scheduling load() eventually returns, whatever N, C and the
\* mix of successful and failing probes.
C3_LoadReturns == (pc = "load") ~> LoadReturned

C3_Witness ==
    /\ LoadReturned
    /\ Len(paths) > cap
    /\ ProbeErrors # <<>> /\ Len(ProbeErrors) < Len(paths)

\* C4: a failing Target touches no other Target: after load() the files and
\* the dirs bucket hold, as multisets, what the same input without the failing
\* Targets yields, and every failing Target has exactly one error line.
Succeeding == SelectSeq(paths, LAMBDA p : Metadata(p) # "err")
Failing    == SelectSeq(paths, LAMBDA p : Metadata(p) = "err")
Outcomes(ps) == [k \in DOMAIN ps |-> Classify(ps[k], is_tree(options))]
FileOutcomes(ps) ==
    LET sel == SelectSeq(Outcomes(ps), LAMBDA r : r.tag = "File")
    IN  [k \in DOMAIN sel |-> sel[k].file]
PathOutcomes(ps) ==
    LET sel == SelectSeq(Outcomes(ps), LAMBDA r : r.tag = "Path")
    IN  [k \in DOMAIN sel |-> sel[k].file.path]

C4_FailureIsolated ==
    LoadReturned =>
        /\ SameBag(files, FileOutcomes(Succeeding))
        /\ SameBag(dirs, PathOutcomes(Succeeding))
        /\ SameBag(ProbeErrors, Failing)
        /\ \A p \in Range(Failing) :
              p \notin Range(PathsOf(files)) \cup Range(dirs)

C4_Witness ==
    /\ LoadReturned
    /\ Failing # <<>>
    /\ Metadata(paths[1]) = "err"
    /\ files # <<>> /\ dirs # <<>>

\* C5: an existing non-directory yields a File with the flag unset; an
\* existing directory yields a File with the flag set when dir_action is tree
\* or as-file and a pending directory otherwise; so in tree or as-file mode
\* dirs is empty after load() and print_dirs expands nothing.
TreeOrAsFile ==
    \/ options.dir_action = "AsFile"
    \/ options.dir_action = "Recurse" /\ options.tree
Expansions == SelectSeq(out, LAMBDA l : l.kind \in {"listing", "read_error"})

C5_Classification ==
    /\ LoadReturned =>
          \A t \in DOMAIN paths :
             LET p == paths[t]
                 inFiles(flag) == \E f \in Range(files) : f.path = p /\ f.flag = flag
             IN  /\ Components(p) \in FsFiles =>
                       inFiles(FALSE) /\ ~inFiles(TRUE) /\ p \notin Range(dirs)
                 /\ Components(p) \in FsDirs /\ TreeOrAsFile =>
                       inFiles(TRUE) /\ ~inFiles(FALSE) /\ p \notin Range(dirs)
                 /\ Components(p) \in FsDirs /\ ~TreeOrAsFile =>
                       p \in Range(dirs) /\ ~inFiles(TRUE) /\ ~inFiles(FALSE)
    /\ TreeOrAsFile /\ pc \notin {"getopts", "load"} =>
          dirs = <<>> /\ Expansions = <<>>

C5_Witness ==
    /\ pc = "exit"
    /\ TreeOrAsFile
    /\ \E f \in Range(files) : f.flag
    /\ \E f \in Range(files) : ~f.flag

\* print_dirs has stopped on a failed Dir::readdir
ReadFailed == out # <<>> /\ Last(out).kind = "read_error"

\* the line l shows that print_dirs popped and read `path`
IsExpansionOf(l, path) == l.kind \in {"listing", "read_error"} /\ l.path = path

\* the directories print_dirs has read and printed
Listings == SelectSeq(out, LAMBDA l : l.kind = "listing")

\* C6: with recursion enabled, non-tree mode and maximum depth D, no
\* directory whose depth is beyond D is ever expanded by print_dirs.
C6_NoExpansionBeyondDepth ==
    options.dir_action = "Recurse" /\ ~options.tree =>
        \A d \in options.max_depth :
            \A k \in DOMAIN Listings : Depth(Listings[k].path) <= d

\* C6, amended: with recursion enabled, non-tree mode and maximum depth D,
\* print_dirs pushes the directory children only of a directory of depth at
\* most D. So every directory it expands is an input Target (expanded whatever
\* its depth) or a child of an expanded directory of depth at most D, and
\* then of depth at most D + 1; and every listing still holds all the
\* children of its directory, pushed or not.
ListedIn(l, path) == \E e \in Range(l.entries) : e.is_dir /\ e.path = path

C6_PushOnlyWithinDepth ==
    options.dir_action = "Recurse" /\ ~options.tree =>
        \A d \in options.max_depth :
            \A k \in DOMAIN out :
                out[k].kind = "listing" =>
                    /\ \/ out[k].path \in Range(paths)
                       \/ /\ Depth(out[k].path) <= d + 1
                          /\ \E j \in 1..(k - 1) :
                                /\ out[j].kind = "listing"
                                /\ Depth(out[j].path) <= d
                                /\ ListedIn(out[j], out[k].path)
                    /\ { e.path : e \in Range(out[k].entries) }
                          = { out[k].path \o <<n>> : n \in ChildNames(out[k].path) }

\* a directory beyond the depth limit was expanded, its subdirectory was
\* listed in it and print_dirs ended without expanding that subdirectory
C6_Witness ==
    /\ pc = "exit" /\ ~ReadFailed
    /\ options.dir_action = "Recurse" /\ ~options.tree
    /\ \E d \in options.max_depth :
          \E k \in DOMAIN out :
              /\ out[k].kind = "listing"
              /\ Depth(out[k].path) = d + 1
              /\ out[k].path \notin Range(paths)
              /\ \E e \in Range(out[k].entries) :
                    /\ e.is_dir
                    /\ \A m \in DOMAIN out : ~IsExpansionOf(out[m], e.path)

\* C7: when recurse_opts.tree is set, or recursion is not enabled at all,
\* a step of print_dirs changes the stack only by removing its top element.
PushesDisabled == options.dir_action # "Recurse" \/ options.tree

C7_NoPushWithoutRecursion ==
    [][pc = "dirs_loop" /\ dirs # <<>> /\ PushesDisabled
          => dirs' = Front(dirs) /\ Len(Expansions') = Len(Expansions) + 1]_vars

C7_Witness ==
    /\ PushesDisabled
    /\ \E k \in DOMAIN Listings :
          /\ Depth(Listings[k].path) = 2
          /\ \E f \in Range(Listings[k].entries) : f.is_dir

\* C8: when a directory is expanded with pushes enabled and its transformed
\* listing holds the directories a before b, every later expansion of b is
\* preceded, after that listing, by an expansion of a: siblings are popped
\* and expanded in display order.
PushesEnabledFor(path) ==
    /\ options.dir_action = "Recurse"
    /\ ~options.tree
    /\ \A d \in options.max_depth : Depth(path) <= d

C8_DisplayOrderKept ==
    \A k \in DOMAIN out :
        out[k].kind = "listing" /\ PushesEnabledFor(out[k].path) =>
            LET es == out[k].entries
            IN  \A a, b \in DOMAIN es :
                   a < b /\ es[a].is_dir /\ es[b].is_dir =>
                      \A m \in (k + 1)..Len(out) :
                         IsExpansionOf(out[m], es[b].path) =>
                            \E j \in (k + 1)..(m - 1) : IsExpansionOf(out[j], es[a].path)

C8_Witness ==
    \E k \in DOMAIN out :
        /\ out[k].kind = "listing" /\ PushesEnabledFor(out[k].path)
        /\ \E a, b \in DOMAIN out[k].entries :
              /\ a < b
              /\ \E j, m \in (k + 1)..Len(out) :
                    /\ j < m
                    /\ out[j].kind = "listing" /\ out[j].path = out[k].entries[a].path
                    /\ out[m].kind = "listing" /\ out[m].path = out[k].entries[b].path

\* C9: once Dir::readdir has failed, print_dirs has emitted one error line
\* and returned: nothing is popped, read or printed afterwards, and the step
\* that fails keeps everything printed before it and self.count.
C9_ReadErrorAborts ==
    [][/\ ReadFailed =>
            pc = "exit" /\ UNCHANGED <<dirs, files, count, out, first, pc>>
       /\ ~ReadFailed /\ ReadFailed' =>
            /\ pc' = "exit"
            /\ count' = count
            /\ Front(out') = Gap(out, first)
            /\ Len(dirs') = Len(dirs) - 1]_vars

C9_Witness ==
    /\ ReadFailed
    /\ dirs # <<>>
    /\ Listings # <<>>

\* C10: after print_dirs stops on a readdir error the process exit status is
\* non-zero.
C10_NonZeroExit == pc = "exit" /\ ReadFailed => exit_status # 0

\* the positions in out at which print_dirs popped and read a directory
ExpansionAt(k) == out[k].kind \in {"listing", "read_error"}

\* the line at k is a successful expansion preceded by its header
HeaderBefore(k) ==
    k > 1 /\ out[k - 1].kind = "header" /\ out[k - 1].path = out[k].path

\* the block of the expansion at k (header, if any, and listing or error
\* line) is preceded by a blank line
GapBefore(k) ==
    LET b == IF HeaderBefore(k) THEN k - 1 ELSE k
    IN  b > 1 /\ out[b - 1].kind = "gap"

\* C11: print_dirs prints a separating blank line before every directory
\* expansion except the very first block of the listing: with standalone
\* files the files block is the first and every directory has the blank line
\* before it, with no standalone files at all the first directory also omits
\* it. Every blank line printed is such a separator.
C11_SeparatorRule ==
    /\ \A k \in DOMAIN out :
          ExpansionAt(k) =>
             (GapBefore(k) <=>
                 ~(files = <<>> /\ \A j \in 1..(k - 1) : ~ExpansionAt(j)))
    /\ Cardinality({ k \in DOMAIN out : out[k].kind = "gap" })
          = Cardinality({ k \in DOMAIN out : ExpansionAt(k) /\ GapBefore(k) })

\* two runs in one predicate would be two states; this is the one with
\* standalone files, where the first directory has its separator
C11_Witness ==
    /\ pc = "exit"
    /\ files # <<>>
    /\ Len(Expansions) >= 2
    /\ \E k \in DOMAIN out :
          /\ ExpansionAt(k) /\ GapBefore(k)
          /\ \A j \in 1..(k - 1) : ~ExpansionAt(j)

\* C12: when a directory is expanded its header is printed if and only if
\* self.count > 1 at that point, self.count being the number of Targets
\* resolved by load() (failed ones included) plus the number of directories
\* expanded before; no header is printed anywhere else.
ListingsBefore(k) == Cardinality({ j \in 1..(k - 1) : out[j].kind = "listing" })

C12_HeaderRule ==
    /\ \A k \in DOMAIN out :
          out[k].kind = "listing" =>
             (HeaderBefore(k) <=> Len(paths) + ListingsBefore(k) > 1)
    /\ \A k \in DOMAIN out :
          out[k].kind = "header" =>
             k < Len(out) /\ out[k + 1].kind = "listing" /\ out[k + 1].path = out[k].path

C12_Witness ==
    /\ pc = "exit"
    /\ Len(paths) = 1
    /\ \E k, m \in DOMAIN out :
          /\ out[k].kind = "listing" /\ ~HeaderBefore(k)
          /\ out[m].kind = "listing" /\ HeaderBefore(m)

\* C13: a send on the capacity channel that blocked proceeds only after a
\* previously spawned probe has delivered its outcome: between the moment the
\* submitter blocks and the moment its send goes through, the number of
\* outcomes sent has grown.
C13_UnblockedByCompletion ==
    [][pc = "send" /\ pc' = "spawn" => \A n \in blocked_at : NumSent > n]_vars

\* tokens acquired by the submitting thread (sends of line 103 gone through)
\* and tokens released by the consumer (receives of line 83 gone through)
Acquires == i + (IF pc = "spawn" THEN 1 ELSE 0)
Releases == iter + (IF cpc = "recv_result" THEN 1 ELSE 0)

\* C14: every probe acquires exactly one token before it is spawned and one
\* token is released per aggregated outcome, whatever the outcome: the
\* channel holds exactly the tokens acquired and not yet released, releases
\* <= acquires <= N throughout, and when load() returns acquires = releases
\* = N with the capacity channel empty.
C14_SlotAccounting ==
    /\ InLoad \/ LoadReturned =>
          /\ tokens = Acquires - Releases
          /\ Releases <= Acquires /\ Acquires <= Len(paths)
          /\ i <= Acquires /\ iter <= Releases
          /\ iter = Len(files) + Len(dirs)
                    + Len(SelectSeq(out, LAMBDA l : l.kind = "probe_error"))
                    - Len(SelectSeq(results, LAMBDA r : r.tag = "Error"))
    /\ LoadReturned =>
          Acquires = Len(paths) /\ Releases = Len(paths) /\ tokens = 0

C14_Witness ==
    /\ LoadReturned
    /\ Len(paths) = 3 /\ cap = 1
    /\ Len(ProbeErrors) = 1 /\ Len(files) = 1 /\ Len(dirs) = 1
    /\ Acquires = 3 /\ Releases = 3

\* C18: the consumer's receive on the results channel never observes a
\* disconnected channel: while the consumer is in its loop, and as long as
\* load() has not joined it, at least one Sender of the results channel is
\* alive, and the consumer never reaches unreachable!().
C18_ReceiveNeverDisconnected ==
    /\ cpc # "panicked"
    /\ cpc \in {"recv_token", "recv_result"} => senders >= 1
    /\ InLoad => senders >= 1

\* the consumer receives while every producer has dropped its clone: only
\* the original results_tx keeps the channel connected
C18_Witness ==
    /\ pc = "join" /\ cpc = "recv_result"
    /\ Len(paths) = 3 /\ NumSent = 3
    /\ senders = 1

\* the producer threads spawned so far
Spawned == Cardinality({ t \in DOMAIN prod : prod[t] # "idle" })

\* C19: in every state of load() the capacity channel buffers at most C
\* tokens, and the producers spawned exceed the outcomes aggregated by at
\* most C + 1.
C19_AdmissionBound ==
    InLoad => /\ tokens <= cap
              /\ Spawned - iter <= cap + 1

C19_Witness ==
    /\ InLoad
    /\ tokens = cap
    /\ Spawned - iter = cap + 1
    /\ InFlight = cap + 1

\* C20: self.count never decreases; a step adds exactly one to it exactly
\* when it aggregates an outcome (of any tag) or prints the listing of a
\* directory that was read; print_files and a failed directory read leave it
\* alone; during load() only the consumer changes it, afterwards only the
\* loop of print_dirs.
C20_CountMonotonic ==
    [][ /\ count' >= count /\ count' <= count + 1
        /\ count' = count + 1 <=>
              \/ iter' = iter + 1
              \/ Len(Listings') = Len(Listings) + 1
        /\ count' = iter' + Len(Listings')
        /\ pc = "print_files" => count' = count
        /\ Len(Expansions') > Len(Expansions) /\ Last(out').kind = "read_error"
              => count' = count
        /\ count' # count =>
              \/ /\ InLoad /\ cpc = "recv_result" /\ results # <<>>
                 /\ pc' = pc /\ i' = i /\ prod' = prod /\ out' = out
              \/ /\ pc = "dirs_loop" /\ cpc = "done"
                 /\ iter' = iter /\ iter = Len(paths)
      ]_vars

C20_Witness ==
    /\ pc = "exit" /\ ReadFailed
    /\ Len(ProbeErrors) >= 1
    /\ Len(Listings) >= 1
    /\ count = Len(paths) + Len(Listings)
    /\ count = 3

\* q lies strictly below p in the tree
IsProperExtension(q, p) == Len(q) > Len(p) /\ SubSeq(q, 1, Len(p)) = p

\* A path names a Target (no Target of TargetPool lies below another one).
TopLevel(p) == p \in Range(paths)

\* the Targets expanded so far, in the order of their expansion
TopExpanded ==
    LET es == Expansions
    IN  SelectSeq([k \in DOMAIN es |-> es[k].path], TopLevel)

\* the order in which load() put the directory Targets into dirs: the ones
\* still pending, followed by the expanded ones, last expanded first
ArrivalOrder == SelectSeq(dirs, TopLevel) \o Reverse(TopExpanded)

\* C16: load() appends each directory Target at the end of dirs, and
\* print_dirs expands the Targets in the reverse of that order: at every
\* moment the Targets expanded so far are the last ones that arrived, last
\* arrival first, and every expansion between the expansions of two Targets
\* y and x is one of a descendant of y.
C16_ReverseArrival ==
    [][ /\ InLoad =>
              /\ ArrivalOrder = dirs
              /\ \/ dirs' = dirs
                 \/ \E p \in Range(paths) : dirs' = Append(dirs, p)
        /\ ArrivalOrder' = IF pc \in {"print_files", "print_dirs", "dirs_loop"}
                           THEN ArrivalOrder ELSE dirs'
        /\ pc = "dirs_loop" /\ dirs # <<>> /\ TopLevel(Last(dirs)) =>
              \A k \in DOMAIN dirs : TopLevel(dirs[k])
        /\ \A k \in DOMAIN out' :
              ExpansionAt(k)' /\ ~TopLevel(out'[k].path) =>
                 \E a \in 1..(k - 1) :
                    /\ ExpansionAt(a)' /\ TopLevel(out'[a].path)
                    /\ IsProperExtension(out'[k].path, out'[a].path)
                    /\ \A j \in (a + 1)..(k - 1) :
                          ExpansionAt(j)' => ~TopLevel(out'[j].path)
      ]_vars

C16_Witness ==
    /\ pc = "exit" /\ ~ReadFailed
    /\ Len(TopExpanded) = 2 /\ TopExpanded[1] # TopExpanded[2]
    /\ ArrivalOrder = Reverse(TopExpanded)
    /\ \E k \in DOMAIN out : ExpansionAt(k) /\ ~TopLevel(out[k].path)
    /\ LET e == Expansions IN ~TopLevel(e[2].path)

\* the position after the expansions of d's subtree that follow the
\* expansion at k: the next expansion of something outside the subtree, or
\* the end of the output when there is none
SubtreeEnd(k) ==
    LET after == { j \in (k + 1)..Len(out) :
                      ExpansionAt(j) /\ ~IsProperExtension(out[j].path, out[k].path) }
    IN  IF after = {} THEN Len(out) + 1
        ELSE CHOOSE j \in after : \A j2 \in after : j <= j2

\* the subtree of the expansion at k is complete: something outside it has
\* been expanded since, or print_dirs has returned with the stack empty
SubtreeClosed(k) ==
    \/ SubtreeEnd(k) <= Len(out)
    \/ pc = "exit" /\ ~ReadFailed

\* C17: expansion is depth-first pre-order: once a directory d has been
\* expanded, every directory pushed as a descendant of d is expanded before
\* anything outside d's subtree (what was on the stack below d, d's next
\* sibling included), and every directory is expanded after its parent.
C17_DepthFirstPreOrder ==
    /\ \A k \in DOMAIN out :
          out[k].kind = "listing" /\ SubtreeClosed(k) =>
             \A m \in k..(SubtreeEnd(k) - 1) :
                out[m].kind = "listing" /\ PushesEnabledFor(out[m].path) =>
                   \A c \in Range(out[m].entries) :
                      c.is_dir =>
                         \E n \in (m + 1)..(SubtreeEnd(k) - 1) :
                            IsExpansionOf(out[n], c.path)
    /\ \A k \in DOMAIN out :
          ExpansionAt(k) /\ ~TopLevel(out[k].path) =>
             \E m \in 1..(k - 1) :
                /\ out[m].kind = "listing"
                /\ ListedIn(out[m], out[k].path)

\* <<1>> is expanded, then its whole subtree, <<1, 1, 1>> included, and only
\* then the Target that was below it on the stack
C17_Witness ==
    \E k \in DOMAIN out :
        /\ out[k].kind = "listing" /\ out[k].path = <<1>>
        /\ SubtreeEnd(k) <= Len(out)
        /\ \E n \in (k + 1)..(SubtreeEnd(k) - 1) :
              out[n].kind = "listing" /\ out[n].path = <<1, 1, 1>>
        /\ \E n \in (k + 1)..(SubtreeEnd(k) - 1) :
              out[n].kind = "listing" /\ out[n].path = <<1, 2>>
        /\ out[SubtreeEnd(k)].path = <<CurDir, 2>>

\* the pops that a stack entry stands for: its own and those of the
\* directories below it that are reached through depths that allow pushes
Work(path) ==
    LET base  == Components(path)
        below == { d \in FsDirs : IsProperExtension(d, base) }
        At(d, n) == path \o SubSeq(d, Len(base) + 1, n)
    IN  1 + Cardinality({ d \in below :
                \A n \in Len(base)..(Len(d) - 1) : PushesEnabledFor(At(d, n)) })

RECURSIVE SeqWork(_)
SeqWork(stack) ==
    IF stack = <<>> THEN 0 ELSE Work(Head(stack)) + SeqWork(Tail(stack))

\* the pops still to come when no read fails
Measure == SeqWork(dirs)

\* how often path has been popped, and how often it has been pushed: by
\* load() as a Target, by print_dirs as a subdirectory of a listed directory
Pops(path) == Cardinality({ k \in DOMAIN out : IsExpansionOf(out[k], path) })
PushCount(path) ==
    Occ(PathOutcomes(paths), path)
    + Cardinality({ k \in DOMAIN out :
                      /\ out[k].kind = "listing"
                      /\ PushesEnabledFor(out[k].path)
                      /\ ListedIn(out[k], path) })
Mentioned ==
    Range(dirs) \cup Range(PathOutcomes(paths))
    \cup { out[k].path : k \in { j \in DOMAIN out : ExpansionAt(j) } }
    \cup UNION { { e.path : e \in { f \in Range(out[k].entries) : f.is_dir } } :
                    k \in { j \in DOMAIN out : out[j].kind = "listing" } }

\* C15: print_dirs terminates: an iteration that does not return takes
\* exactly one pop off a finite measure (the pops still to come), the loop is
\* left only with the stack empty or on the first failed read; every
\* directory pushed is popped at most once
\* (pops + pending occurrences = pushes) and exactly once when the loop ends
\* without read error.
C15_TraversalTerminates ==
    [][ /\ pc = "dirs_loop" =>
              /\ pc' \in {"dirs_loop", "exit"}
              /\ Measure >= Len(dirs)
              /\ pc' = "dirs_loop" =>
                    /\ Measure' = Measure - 1
                    /\ Len(Expansions') = Len(Expansions) + 1
              /\ pc' = "exit" =>
                    \/ dirs = <<>> /\ out' = out /\ Measure = 0
                    \/ ReadFailed' /\ Len(Expansions') = Len(Expansions) + 1
              /\ \A p \in Mentioned' : Pops(p)' + Occ(dirs', p) = PushCount(p)'
              /\ pc' = "exit" /\ ~ReadFailed' =>
                    \A p \in Mentioned' : Pops(p)' = PushCount(p)'
        /\ pc = "print_dirs" =>
              /\ \A p \in Mentioned : Pops(p) = 0 /\ Occ(dirs, p) = PushCount(p)
              /\ Measure' = Measure
      ]_vars

\* a run over the whole tree below <<1>>, a Target given twice and popped
\* twice, ended by the empty stack
C15_Witness ==
    /\ pc = "exit" /\ ~ReadFailed /\ dirs = <<>>
    /\ Len(Expansions) >= 6
    /\ Pops(<<1>>) = 2 /\ Pops(<<1, 1, 1>>) = 2
    /\ PushCount(<<1, 1, 1>>) = 2

====
